---- MODULE Spec2Model ----
(***************************************************************************)
(* Model of the Express backend of the farming dashboard (server.js):      *)
(* the cached weather proxy (GET /api/weather) and the in-memory crops and *)
(* todos collections.                                                      *)
(*                                                                         *)
(* Conventions                                                             *)
(*   - An optional value (a query parameter that may be absent, a field    *)
(*     that may be null) is a sequence of length <= 1: <<>> is absent /    *)
(*     null / undefined, <<v>> is the value v.                             *)
(*   - A coordinate is an integer number of 1e-4 degrees (4 is 0.0004).    *)
(*   - Date.now() is the variable clock, in milliseconds.                  *)
(*   - The JSON body of the upstream response fetched by the i-th weather  *)
(*     request is the opaque value <<i>>.                                  *)
(***************************************************************************)
EXTENDS Integers, Sequences, FiniteSets, TLC

\* ---------------------------------------------------------------- bounds
MaxRequests == 2    \* weather requests per behaviour
MaxTicks == 3       \* clock steps per behaviour
MaxCoord == 8       \* |coordinate| of the fingerprint inputs, in 1e-4 degrees
MaxIds == 2         \* makeId() calls per behaviour

\* const WEATHER_TTL_MS = 60_000
WEATHER_TTL_MS == 60000

VARIABLES
    apiKey,         \* process.env.OPENWEATHER_API_KEY is set
    clock,          \* Date.now()
    weatherCache,   \* Map: key -> [ts, data]
    reqs,           \* the weather requests, in order of arrival
    probe,          \* two weather queries and their fingerprints
    crops,          \* let crops = []
    todos,          \* let todos = []
    made,           \* number of makeId() calls so far
    last            \* the last crops/todos request and its response

vars == <<apiKey, clock, weatherCache, reqs, probe, crops, todos, made, last>>
weatherVars == <<apiKey, clock, weatherCache, reqs>>
crudVars == <<crops, todos, made, last>>

Absent == <<>>
Some(v) == <<v>>
Abs(x) == IF x < 0 THEN -x ELSE x

\* ------------------------------------------------------- weather: the key
\* Number(x).toFixed(3) of x * 1e-4: a sign ("-" when x < 0, also when the
\* digits come out as 0.000) and the magnitude rounded to a whole number of
\* thousandths (of two equally near, the larger).
ToFixed3Trunc(x) == <<IF x < 0 THEN "-" ELSE "", Abs(x) \div 10>>
ToFixed3(x) == <<IF x < 0 THEN "-" ELSE "", (Abs(x) + 5) \div 10>>

\* const { lat, lon, units = "metric", lang = "en" } = req.query
Units(q) == IF q.units = Absent THEN "metric" ELSE q.units[1]
Lang(q) == IF q.lang = Absent THEN "en" ELSE q.lang[1]

\* `${Number(lat).toFixed(3)},${Number(lon).toFixed(3)},${units},${lang}`
WeatherKey(q) == <<ToFixed3(q.lat[1]), ToFixed3(q.lon[1]), Units(q), Lang(q)>>

\* !lat || !lon
MissingLatLon(q) == q.lat = Absent \/ q.lon = Absent

\* weatherCache.get(key)
CacheGet(key) == IF key \in DOMAIN weatherCache THEN Some(weatherCache[key]) ELSE Absent

\* cached && now - cached.ts < WEATHER_TTL_MS
FreshLax(cached, now) == cached # Absent /\ now - cached[1].ts <= WEATHER_TTL_MS
FreshSeconds(cached, now) == cached # Absent /\ now - cached[1].ts < WEATHER_TTL_MS \div 1000
Fresh(cached, now) == cached # Absent /\ now - cached[1].ts < WEATHER_TTL_MS

\* weatherCache.set(key, { ts: now, data }): the entry the i-th request stores
StoredEntry(r, data) == [ts |-> r.now, data |-> data]

\* r.ok
OkLax(status) == status >= 200
Ok(status) == status >= 200 /\ status <= 299

\* ------------------------------------------------------ weather: requests
Query(lat, lon, units, lang) == [lat |-> lat, lon |-> lon, units |-> units, lang |-> lang]

\* The queries the weather requests are drawn from: three fingerprints'
\* worth of coordinates (0.0004 and 0.0002 share one, 0.0006 has another),
\* defaults given and left out, and each required parameter missing.
Queries ==
    { Query(Some(4), Some(16), Absent, Absent),
      Query(Some(2), Some(16), Some("metric"), Some("en")),
      Query(Some(6), Some(16), Absent, Absent),
      Query(Absent, Some(16), Absent, Absent),
      Query(Some(4), Absent, Absent, Absent) }

UpstreamStatuses == {200, 401}

NoKey == <<>>
NoResponse == [status |-> 0, error |-> "", data |-> Absent, cacheControl |-> ""]
CacheControl == "public, max-age=30, stale-while-revalidate=120"

ErrorResponse(status, msg) ==
    [status |-> status, error |-> msg, data |-> Absent, cacheControl |-> ""]
\* res.status(r.status).json(data)
Forwarded(status, data) ==
    [status |-> status, error |-> "", data |-> data, cacheControl |-> ""]
\* res.set("Cache-Control", ...); res.json(data)
Served(data) ==
    [status |-> 200, error |-> "", data |-> data, cacheControl |-> CacheControl]

\* One request: its query, the handler's position (pc), its locals (key, now,
\* cached, r), its response (res), and counts of what it did: fetch() calls
\* (calls), weatherCache.get calls (gets), weatherCache.set calls (sets).
NewRequest(q) ==
    [q |-> q, pc |-> "start", key |-> NoKey, now |-> 0, cached |-> Absent,
     r |-> 0, res |-> NoResponse, calls |-> 0, gets |-> 0, sets |-> 0]

\* The two checks ahead of the cache lookup: the response the handler returns
\* early with, or Absent when it goes on.
EarlyReturnKeyFirst(q) ==
    IF ~apiKey
    THEN Some(ErrorResponse(500, "OPENWEATHER_API_KEY missing in server/.env"))
    ELSE IF MissingLatLon(q)
    THEN Some(ErrorResponse(400, "lat and lon are required"))
    ELSE Absent
EarlyReturn(q) ==
    IF MissingLatLon(q)
    THEN Some(ErrorResponse(400, "lat and lon are required"))
    ELSE IF ~apiKey
    THEN Some(ErrorResponse(500, "OPENWEATHER_API_KEY missing in server/.env"))
    ELSE Absent

\* The handler from its first line to its first await (or to its return).
Started(q) ==
    LET req == NewRequest(q)
        early == EarlyReturn(q)
    IN
    IF early # Absent
    THEN [req EXCEPT !.pc = "done", !.res = early[1]]
    ELSE LET key == WeatherKey(q)
             now == clock
             cached == CacheGet(key)
             looked == [req EXCEPT !.key = key, !.now = now, !.cached = cached, !.gets = 1]
         IN IF Fresh(cached, now)
            THEN [looked EXCEPT !.pc = "done", !.res = Served(cached[1].data)]
            ELSE [looked EXCEPT !.pc = "fetch", !.calls = 1]

\* app.get("/api/weather"): a request arrives and runs to its first await.
Arrive(q) ==
    /\ Len(reqs) < MaxRequests
    /\ reqs' = Append(reqs, Started(q))
    /\ UNCHANGED <<apiKey, clock, weatherCache, probe, crudVars>>

\* const r = await fetch(url): the upstream answers with a status.
FetchResolve(i, status) ==
    /\ reqs[i].pc = "fetch"
    /\ reqs' = [reqs EXCEPT ![i].pc = "json", ![i].r = status]
    /\ UNCHANGED <<apiKey, clock, weatherCache, probe, crudVars>>

\* await fetch(url) rejects (network failure): the catch block.
FetchReject(i) ==
    /\ reqs[i].pc = "fetch"
    /\ reqs' = [reqs EXCEPT ![i].pc = "done",
                            ![i].res = ErrorResponse(500, "Weather fetch failed")]
    /\ UNCHANGED <<apiKey, clock, weatherCache, probe, crudVars>>

\* const data = await r.json() resolves, and the handler runs to its end.
JsonResolve(i) ==
    /\ reqs[i].pc = "json"
    /\ LET data == Some(i) IN
       IF ~Ok(reqs[i].r)
       THEN /\ reqs' = [reqs EXCEPT ![i].pc = "done", ![i].res = Forwarded(reqs[i].r, data)]
            /\ UNCHANGED weatherCache
       ELSE /\ weatherCache' =
                [k \in DOMAIN weatherCache \cup {reqs[i].key} |->
                    IF k = reqs[i].key THEN StoredEntry(reqs[i], data) ELSE weatherCache[k]]
            /\ reqs' = [reqs EXCEPT ![i].pc = "done", ![i].res = Served(data),
                                    ![i].sets = 1]
    /\ UNCHANGED <<apiKey, clock, probe, crudVars>>

\* await r.json() rejects (the body is not JSON): the catch block.
JsonReject(i) ==
    /\ reqs[i].pc = "json"
    /\ reqs' = [reqs EXCEPT ![i].pc = "done",
                            ![i].res = ErrorResponse(500, "Weather fetch failed")]
    /\ UNCHANGED <<apiKey, clock, weatherCache, probe, crudVars>>

\* Time passes: Date.now() moves on by a third of the TTL.
Tick ==
    /\ clock < MaxTicks * (WEATHER_TTL_MS \div 3)
    /\ clock' = clock + (WEATHER_TTL_MS \div 3)
    /\ UNCHANGED <<apiKey, weatherCache, reqs, probe, crudVars>>

\* ------------------------------------------------------- crops and todos
\* An entity is a function from field names to values. Beside the program's
\* fields it carries born, the number of the makeId() call that made it: born
\* is bookkeeping of the model, no request body names it.
\* An id is a number: n is the string the n-th makeId() call returned.
\* A request body is a function from the field names it gives to their values.
EmptyBody == <<>>

\* const { name = "Crop" } = req.body || {}: the field, or its default.
Field(body, f, default) == IF f \in DOMAIN body THEN body[f] ELSE default

\* makeId(): a string no earlier call returned.
MakeId == made + 1

\* { ...c, ...req.body }
MergeOldWins(c, body) ==
    [f \in DOMAIN c \cup DOMAIN body |-> IF f \in DOMAIN c THEN c[f] ELSE body[f]]
Merge(c, body) ==
    [f \in DOMAIN c \cup DOMAIN body |-> IF f \in DOMAIN body THEN body[f] ELSE c[f]]

\* list.map(c => (c.id === id ? { ...c, ...body } : c))
Updated(list, id, body) ==
    [i \in 1..Len(list) |-> IF list[i].id = id THEN Merge(list[i], body) ELSE list[i]]

\* list.find(c => c.id === id) || null
Find(list, id) ==
    LET hits == { i \in 1..Len(list) : list[i].id = id } IN
    IF hits = {} THEN Absent
    ELSE Some(list[CHOOSE i \in hits : \A k \in hits : i <= k])

\* list.filter(c => c.id !== id)
WithoutOthers(list, id) == SelectSeq(list, LAMBDA c : c.id = id)
Without(list, id) == SelectSeq(list, LAMBDA c : c.id # id)

\* list.push(c)
Unshift(list, c) == <<c>> \o list
Push(list, c) == Append(list, c)

\* The last request (op, id, body) and its response: the status, and the JSON
\* sent: a list (kind "list"), one entity (kind "entity", val = <<entity>>),
\* null (kind "null") or nothing (kind "none").
Response(op, id, body, status, kind, val) ==
    [op |-> op, id |-> id, body |-> body, status |-> status, kind |-> kind, val |-> val]
NoRequest == Response("", 0, EmptyBody, 0, "none", <<>>)

\* The ids a client sends: those makeId() has returned so far (an id of a
\* deleted entity, or of the other collection, is an id that is not there).
IdInputs == 1..made

CropCreateBodies == { EmptyBody, [name |-> "Wheat"] }
CropPutBodies == { [variety |-> "Durum"] } \cup { [id |-> i] : i \in IdInputs }
TodoCreateBodies ==
    { EmptyBody }
    \cup { [title |-> "Irrigate", cropId |-> Some(i), when |-> Some("2026-01-01T08:00")] :
             i \in IdInputs }
TodoPutBodies == { [done |-> TRUE], [done |-> FALSE] } \cup { [id |-> i] : i \in IdInputs }

\* app.get("/api/crops")
ListCrops ==
    /\ last' = Response("GET /api/crops", 0, EmptyBody, 200, "list", crops)
    /\ UNCHANGED <<crops, todos, made, weatherVars, probe>>

\* app.post("/api/crops")
CreateCrop(body) ==
    /\ made < MaxIds
    /\ LET c == [id |-> MakeId, name |-> Field(body, "name", "Crop"),
                 variety |-> Field(body, "variety", ""), born |-> made + 1]
       IN /\ crops' = Push(crops, c)
          /\ last' = Response("POST /api/crops", 0, body, 201, "entity", <<c>>)
    /\ made' = made + 1
    /\ UNCHANGED <<todos, weatherVars, probe>>

\* app.put("/api/crops/:id")
PutCrop(id, body) ==
    /\ crops' = Updated(crops, id, body)
    /\ LET found == Find(crops', id) IN
       last' = Response("PUT /api/crops/:id", id, body, 200,
                        IF found = Absent THEN "null" ELSE "entity", found)
    /\ UNCHANGED <<todos, made, weatherVars, probe>>

\* app.delete("/api/crops/:id")
DeleteCrop(id) ==
    /\ crops' = Without(crops, id)
    /\ last' = Response("DELETE /api/crops/:id", id, EmptyBody, 204, "none", <<>>)
    /\ UNCHANGED <<todos, made, weatherVars, probe>>

\* app.get("/api/todos")
ListTodos ==
    /\ last' = Response("GET /api/todos", 0, EmptyBody, 200, "list", todos)
    /\ UNCHANGED <<crops, todos, made, weatherVars, probe>>

\* app.post("/api/todos")
CreateTodo(body) ==
    /\ made < MaxIds
    /\ LET t == [id |-> MakeId, title |-> Field(body, "title", "Task"),
                 cropId |-> Field(body, "cropId", Absent),
                 when |-> Field(body, "when", Absent), done |-> FALSE,
                 born |-> made + 1]
       IN /\ todos' = Push(todos, t)
          /\ last' = Response("POST /api/todos", 0, body, 201, "entity", <<t>>)
    /\ made' = made + 1
    /\ UNCHANGED <<crops, weatherVars, probe>>

\* app.put("/api/todos/:id")
PutTodo(id, body) ==
    /\ todos' = Updated(todos, id, body)
    /\ LET found == Find(todos', id) IN
       last' = Response("PUT /api/todos/:id", id, body, 200,
                        IF found = Absent THEN "null" ELSE "entity", found)
    /\ UNCHANGED <<crops, made, weatherVars, probe>>

\* app.delete("/api/todos/:id")
DeleteTodo(id) ==
    /\ todos' = Without(todos, id)
    /\ last' = Response("DELETE /api/todos/:id", id, EmptyBody, 204, "none", <<>>)
    /\ UNCHANGED <<crops, made, weatherVars, probe>>

InitCrud == crops = <<>> /\ todos = <<>> /\ made = 0 /\ last = NoRequest
InitCrudIdle == InitCrud

NextCrud ==
    \/ ListCrops
    \/ \E body \in CropCreateBodies : CreateCrop(body)
    \/ \E id \in IdInputs, body \in CropPutBodies : PutCrop(id, body)
    \/ \E id \in IdInputs : DeleteCrop(id)
    \/ ListTodos
    \/ \E body \in TodoCreateBodies : CreateTodo(body)
    \/ \E id \in IdInputs, body \in TodoPutBodies : PutTodo(id, body)
    \/ \E id \in IdInputs : DeleteTodo(id)

\* ------------------------------------------------ weather: the key, probed
\* The coordinates the fingerprint is probed on. A coordinate whose fourth
\* decimal is 5 lies midway between two thousandths, where the binary
\* expansion of the double decides the digit printed: those are left out.
CoordInputs == { x \in -MaxCoord..MaxCoord : x % 10 # 5 }

ProbeQueriesA ==
    { Query(Some(lat), Some(lon), Absent, Absent) : lat \in CoordInputs, lon \in CoordInputs }
ProbeQueriesB ==
    { Query(Some(lat), Some(lon), units, lang) :
        lat \in CoordInputs, lon \in CoordInputs,
        units \in {Absent, Some("metric"), Some("imperial")},
        lang \in {Absent, Some("hi")} }

InitProbe ==
    \E a \in ProbeQueriesA, b \in ProbeQueriesB :
        probe = [a |-> a, b |-> b, keyA |-> NoKey, keyB |-> NoKey]
InitProbeIdle == probe = [a |-> <<>>, b |-> <<>>, keyA |-> NoKey, keyB |-> NoKey]

\* const key = ... evaluated for both queries.
Fingerprint ==
    /\ probe.keyA = NoKey
    /\ probe' = [probe EXCEPT !.keyA = WeatherKey(probe.a), !.keyB = WeatherKey(probe.b)]
    /\ UNCHANGED <<weatherVars, crudVars>>

InitWeather ==
    /\ apiKey \in BOOLEAN
    /\ clock = 0
    /\ weatherCache = <<>>
    /\ reqs = <<>>


\* The weather proxy with its key configured and no request yet.
InitWeatherIdle == InitWeather /\ apiKey = TRUE

NextWeather ==
    \/ \E q \in Queries : Arrive(q)
    \/ \E i \in 1..Len(reqs), s \in UpstreamStatuses : FetchResolve(i, s)
    \/ \E i \in 1..Len(reqs) : FetchReject(i)
    \/ \E i \in 1..Len(reqs) : JsonResolve(i)
    \/ \E i \in 1..Len(reqs) : JsonReject(i)
    \/ Tick

\* The server after start-up, seen from the weather proxy.
InitServerWeather == InitWeather /\ InitProbeIdle /\ InitCrudIdle

SpecWeather ==
    /\ InitServerWeather
    /\ [][NextWeather]_vars

\* The server after start-up, seen from the crops and todos routes.
InitServerCrud == InitCrud /\ InitWeatherIdle /\ InitProbeIdle

SpecCrud ==
    /\ InitServerCrud
    /\ [][NextCrud]_vars

NextKey == Fingerprint

\* Two queries whose fingerprints are to be computed.
InitServerKey == InitProbe /\ InitWeatherIdle /\ InitCrudIdle

SpecKey ==
    /\ InitServerKey
    /\ [][NextKey]_vars

\* ------------------------------------------------------- weather: claims
Looked(i) == reqs[i].key # NoKey
Done(i) == reqs[i].pc = "done"
Requests == 1..Len(reqs)
SuccessStatuses == 200..299

\* C1 as stated: of two requests with the same fingerprint, the second
\* arriving less than 60,000 ms after the first, the second is answered from
\* the cache and issues no upstream call, in every interleaving.
C1_SecondAlwaysFromCache ==
    \A i \in Requests, j \in Requests :
        (/\ i < j /\ Looked(i) /\ Looked(j)
         /\ reqs[i].key = reqs[j].key
         /\ reqs[j].now - reqs[i].now < WEATHER_TTL_MS)
        => /\ reqs[j].calls = 0
           /\ Done(j) /\ reqs[j].res.status = 200

\* C1 amended: of two requests with the same fingerprint, the second arriving
\* less than 60,000 ms after the first, the second is answered from the cache
\* (status 200, the first's payload, the cache-control hint) and issues no
\* upstream call, when the first has stored its upstream response before the
\* second arrives and that entry is the one the second finds in the cache.
C1_SecondFromCacheAfterStore ==
    \A i \in Requests, j \in Requests :
        (/\ i < j /\ Looked(i) /\ Looked(j)
         /\ reqs[i].key = reqs[j].key
         /\ reqs[j].now - reqs[i].now < WEATHER_TTL_MS
         /\ reqs[j].cached # Absent
         /\ reqs[j].cached[1].data = Some(i))
        => /\ reqs[j].calls = 0
           /\ Done(j)
           /\ reqs[j].res = Served(Some(i))
           /\ reqs[j].sets = 0

\* C1 witness: a second request, with other raw coordinates but the same
\* fingerprint, arrives 40,000 ms after the first and is served its payload.
C1_Witness ==
    /\ Len(reqs) = 2
    /\ reqs[1].q # reqs[2].q
    /\ reqs[1].key = reqs[2].key
    /\ reqs[2].now - reqs[1].now = 2 * (WEATHER_TTL_MS \div 3)
    /\ reqs[2].res = Served(Some(1))
    /\ reqs[2].calls = 0

\* C2: a request that reaches the cache lookup and finds no entry, or an entry
\* with now - ts >= 60,000, issues exactly one upstream call; when that call
\* succeeds the step that ends the handler puts [ts |-> the request's now,
\* data |-> the new payload] under the fingerprint and leaves the other keys
\* alone; from then on the cache never holds the payload the request found
\* stale, and no request that arrived after it is served that payload.
C2_MissCallsOnce ==
    \A i \in Requests :
        (Looked(i) /\ (reqs[i].cached = Absent
                       \/ reqs[i].now - reqs[i].cached[1].ts >= WEATHER_TTL_MS))
        => /\ reqs[i].calls = 1
           /\ reqs[i].pc \in {"fetch", "json", "done"}
C2_OldPayloadGone ==
    \A i \in Requests :
        (Done(i) /\ reqs[i].sets = 1 /\ reqs[i].cached # Absent)
        => /\ reqs[i].key \in DOMAIN weatherCache
           /\ weatherCache[reqs[i].key].data # reqs[i].cached[1].data
           /\ \A j \in Requests :
                (j > i /\ reqs[j].res.status = 200)
                => reqs[j].res.data # reqs[i].cached[1].data
C2_StoreStep ==
    \A i \in Requests :
        (/\ reqs[i].pc = "json" /\ reqs'[i].pc = "done"
         /\ reqs[i].r \in SuccessStatuses
         /\ reqs'[i].res.data # Absent)
        => /\ DOMAIN weatherCache' = DOMAIN weatherCache \cup {reqs[i].key}
           /\ weatherCache'[reqs[i].key] = [ts |-> reqs[i].now, data |-> Some(i)]
           /\ \A k \in DOMAIN weatherCache \ {reqs[i].key} :
                weatherCache'[k] = weatherCache[k]
           /\ reqs'[i].res = Served(Some(i))
           /\ reqs'[i].calls = 1
\* C2, whole: the two state properties in every state, the store step in
\* every step.
C2_RefreshAfterTtl ==
    /\ [](C2_MissCallsOnce /\ C2_OldPayloadGone)
    /\ [][C2_StoreStep]_vars

\* C2 witness: the second request arrives exactly 60,000 ms after the first,
\* finds its entry stale, fetches once and overwrites it.
C2_Witness ==
    /\ Len(reqs) = 2
    /\ reqs[2].cached = Some([ts |-> 0, data |-> Some(1)])
    /\ reqs[2].now = WEATHER_TTL_MS
    /\ reqs[2].calls = 1
    /\ Done(2) /\ reqs[2].sets = 1
    /\ weatherCache[reqs[2].key] = [ts |-> WEATHER_TTL_MS, data |-> Some(2)]

\* C3 as stated: two queries whose latitudes differ by less than 0.0005 and
\* whose longitudes differ by less than 0.0005, with the same units and
\* language, have the same fingerprint.
C3_NearbyShareKey ==
    (/\ probe.keyA # NoKey
     /\ Abs(probe.a.lat[1] - probe.b.lat[1]) < 5
     /\ Abs(probe.a.lon[1] - probe.b.lon[1]) < 5
     /\ Units(probe.a) = Units(probe.b)
     /\ Lang(probe.a) = Lang(probe.b))
    => probe.keyA = probe.keyB

\* Two coordinates lie in the same rounding cell: they have the same sign and
\* their magnitudes lie in the same interval [k/1000 - 0.0005, k/1000 + 0.0005).
SameCell(x, y) ==
    /\ (x < 0) = (y < 0)
    /\ \E k \in 0..(MaxCoord + 10) :
          /\ 10 * k - 5 <= Abs(x) /\ Abs(x) < 10 * k + 5
          /\ 10 * k - 5 <= Abs(y) /\ Abs(y) < 10 * k + 5

\* C3 amended: two queries with the same units and language have the same
\* fingerprint exactly when their latitudes lie in the same rounding cell and
\* their longitudes lie in the same rounding cell; coordinates less than
\* 0.0005 apart on either side of a cell boundary or of zero do not.
C3_SameCellShareKey ==
    (/\ probe.keyA # NoKey
     /\ Units(probe.a) = Units(probe.b)
     /\ Lang(probe.a) = Lang(probe.b))
    => (probe.keyA = probe.keyB
        <=> /\ SameCell(probe.a.lat[1], probe.b.lat[1])
            /\ SameCell(probe.a.lon[1], probe.b.lon[1]))

\* C3 witness: 0.0006 and 0.0008 north, -0.0002 and -0.0004 east, units left
\* out and given as the default: one fingerprint.
C3_Witness ==
    /\ probe.keyA # NoKey
    /\ probe.a.lat = Some(6) /\ probe.b.lat = Some(8)
    /\ probe.a.lon = Some(-2) /\ probe.b.lon = Some(-4)
    /\ probe.b.units = Some("metric")
    /\ probe.keyA = probe.keyB
    /\ probe.keyA = <<<<"", 1>>, <<"-", 0>>, "metric", "en">>

\* C4: a request without lat or without lon is answered 400 with an error
\* body; it reads and writes no cache entry and issues no upstream call,
\* whether or not the API key is configured.
C4_MissingParams400 ==
    \A i \in Requests :
        (reqs[i].q.lat = Absent \/ reqs[i].q.lon = Absent)
        => /\ Done(i)
           /\ reqs[i].res.status = 400
           /\ reqs[i].res.error # ""
           /\ reqs[i].gets = 0 /\ reqs[i].sets = 0 /\ reqs[i].calls = 0

\* C4 witness: with no API key configured, a request without lon got 400.
C4_Witness ==
    /\ ~apiKey
    /\ \E i \in Requests :
          /\ reqs[i].q.lon = Absent /\ reqs[i].q.lat # Absent
          /\ reqs[i].res.status = 400

\* C5: when the upstream answers with a non-success status (and a JSON body),
\* the step that ends the handler responds with that status and that body, and
\* leaves the cache as it was; the request has issued one upstream call and
\* never issues another.
C5_ForwardStep ==
    \A i \in Requests :
        (/\ reqs[i].pc = "json" /\ reqs'[i].pc = "done"
         /\ reqs[i].r \notin SuccessStatuses
         /\ reqs'[i].res.data # Absent)
        => /\ reqs'[i].res.status = reqs[i].r
           /\ reqs'[i].res.data = Some(i)
           /\ reqs'[i].res.error = ""
           /\ weatherCache' = weatherCache
           /\ reqs'[i].sets = 0
           /\ reqs'[i].calls = 1
C5_NoRetry ==
    \A i \in Requests :
        /\ reqs[i].calls <= 1
        /\ Done(i) => reqs'[i] = reqs[i]
StoresNow(i) ==
    /\ reqs[i].pc = "json" /\ reqs'[i].pc = "done"
    /\ reqs'[i].sets = 1

\* C11, first part: the timestamp of the entry is the time of the write.
C11_TsIsWriteTime ==
    \A i \in Requests :
        StoresNow(i) => weatherCache'[reqs[i].key].ts = clock
\* C11, second part: an overwrite stores a timestamp at least as large as the
\* one it replaces.
C11_TsNeverBackwards ==
    \A i \in Requests :
        (StoresNow(i) /\ reqs[i].key \in DOMAIN weatherCache)
        => weatherCache'[reqs[i].key].ts >= weatherCache[reqs[i].key].ts
\* C11, third part: a request arriving less than 60,000 ms after the write
\* finds the entry fresh.
C11_FreshFullTtlAfterWrite ==
    \A i \in Requests :
        StoresNow(i)
        => \A later \in { clock, clock + 2 * (WEATHER_TTL_MS \div 3),
                          clock + WEATHER_TTL_MS - 1 } :
              Fresh(Some(weatherCache'[reqs[i].key]), later)

\* C11 as stated: the timestamp stored with a cache entry is the time at which
\* the entry is written; so over any interleaving of requests for one
\* fingerprint an overwrite never moves the timestamp backwards, and an entry
\* is treated as fresh for a full 60,000 ms after it was stored.
C11_TimestampIsWriteTime ==
    [][C11_TsIsWriteTime /\ C11_TsNeverBackwards /\ C11_FreshFullTtlAfterWrite]_vars
\* The parts of C11, each as a property of its own.
C11_OnlyTsIsWriteTime == [][C11_TsIsWriteTime]_vars
C11_OnlyTsNeverBackwards == [][C11_TsNeverBackwards]_vars
C11_OnlyFreshFullTtlAfterWrite == [][C11_FreshFullTtlAfterWrite]_vars

\* ----------------------------------------------- crops and todos: claims
Positions(list) == 1..Len(list)
HasId(list, id) == \E i \in Positions(list) : list[i].id = id

\* C6 as stated: after any sequence of create, update and delete requests no
\* two crops share an id and no two todos share an id.
C6_IdsUnique ==
    /\ \A i \in Positions(crops), j \in Positions(crops) :
          i # j => crops[i].id # crops[j].id
    /\ \A i \in Positions(todos), j \in Positions(todos) :
          i # j => todos[i].id # todos[j].id

\* What C7 says of one PUT on a collection (before -> after): an entity with
\* the path id existed => the response is that entity, updated; none existed
\* => the response is null and the collection is unchanged.
PutReturnsUpdated(before, after) ==
    IF HasId(before, last'.id)
    THEN /\ last'.kind = "entity"
         /\ last'.val = <<Merge(Find(before, last'.id)[1], last'.body)>>
    ELSE /\ last'.kind = "null"
         /\ after = before

\* C7 as stated: PUT returns the updated entity when an entity with the path
\* id exists before the call, for every request body, and null (collection
\* unchanged) when none exists.
C7_PutReturnsUpdated ==
    [][/\ last'.op = "PUT /api/crops/:id" => PutReturnsUpdated(crops, crops')
       /\ last'.op = "PUT /api/todos/:id" => PutReturnsUpdated(todos, todos')]_vars

\* What C8 says of one PUT on a collection (before -> after): same length and
\* order; at a position whose entity has the path id, the fields the body
\* names take the body's values and every other field keeps its value; at
\* every other position the entity is unchanged.
PutFrame(before, after) ==
    /\ Len(after) = Len(before)
    /\ \A i \in Positions(before) :
          IF before[i].id = last'.id
          THEN /\ DOMAIN after[i] = DOMAIN before[i] \cup DOMAIN last'.body
               /\ \A f \in DOMAIN last'.body : after[i][f] = last'.body[f]
               /\ \A f \in DOMAIN before[i] \ DOMAIN last'.body : after[i][f] = before[i][f]
          ELSE after[i] = before[i]

\* C8: a PUT changes, on the entity with the path id, only the fields the
\* body names ({done: true} sets done and keeps id, title, cropId and when);
\* the entities with another id, the order of the collection and the other
\* collection are unchanged.
C8_PutChangesNamedFieldsOnly ==
    [][/\ last'.op = "PUT /api/todos/:id" => (PutFrame(todos, todos') /\ crops' = crops)
       /\ last'.op = "PUT /api/crops/:id" => (PutFrame(crops, crops') /\ todos' = todos)]_vars

\* C8 witness: PUT {done: true} on the second of two todos: it is done, its
\* title, cropId and when are as created, and the first todo is as created.
C8_Witness ==
    /\ last.op = "PUT /api/todos/:id" /\ last.id = 2 /\ last.body = [done |-> TRUE]
    /\ Len(todos) = 2
    /\ todos[1] = [id |-> 1, title |-> "Task", cropId |-> Absent, when |-> Absent,
                   done |-> FALSE, born |-> 1]
    /\ todos[2] = [id |-> 2, title |-> "Irrigate", cropId |-> Some(1),
                   when |-> Some("2026-01-01T08:00"), done |-> TRUE, born |-> 2]

\* The number of entities up to position i that do not have the id.
Rank(list, id, i) == Cardinality({ k \in 1..i : list[k].id # id })

\* What C9 says of one DELETE on a collection (before -> after): status 204;
\* the entities with another id are all kept, in their order, and nothing else.
DeleteFrame(before, after) ==
    /\ last'.status = 204 /\ last'.kind = "none"
    /\ Len(after) = Rank(before, last'.id, Len(before))
    /\ \A i \in Positions(before) :
          before[i].id # last'.id => after[Rank(before, last'.id, i)] = before[i]
    /\ ~HasId(before, last'.id) => after = before

\* C9: DELETE answers 204, removes the entity with the path id if present and
\* keeps every other entity in its order; for an id that is not there the
\* collection is unchanged; deleting a crop leaves the todos as they are (and
\* deleting a todo the crops).
C9_DeleteRemovesOnlyThatId ==
    [][/\ last'.op = "DELETE /api/crops/:id" => (DeleteFrame(crops, crops') /\ todos' = todos)
       /\ last'.op = "DELETE /api/todos/:id" => (DeleteFrame(todos, todos') /\ crops' = crops)]_vars

\* C9 witness: the crop a todo names was deleted: the todo still names it.
C9_Witness ==
    /\ last.op = "DELETE /api/crops/:id" /\ last.id = 1 /\ last.status = 204
    /\ crops = <<>> /\ made = 2
    /\ Len(todos) = 1 /\ todos[1].cropId = Some(1)

\* What C10 says of one create (before -> after): status 201; the response is
\* an entity with an id makeId() generated in this call (non-empty, in no
\* entity before); it is the last of the collection, the others as before.
CreateFrame(before, after) ==
    /\ last'.status = 201 /\ last'.kind = "entity"
    /\ LET e == last'.val[1] IN
          /\ e.id = made' /\ made' = made + 1 /\ e.id >= 1
          /\ ~HasId(crops, e.id) /\ ~HasId(todos, e.id)
          /\ Len(after) = Len(before) + 1
          /\ after[Len(after)] = e
          /\ \A i \in Positions(before) : after[i] = before[i]
CropCreated ==
    LET e == last'.val[1]
        b == last'.body
    IN /\ e.name = (IF "name" \in DOMAIN b THEN b.name ELSE "Crop")
       /\ e.variety = (IF "variety" \in DOMAIN b THEN b.variety ELSE "")
TodoCreated ==
    LET e == last'.val[1]
        b == last'.body
    IN /\ e.title = (IF "title" \in DOMAIN b THEN b.title ELSE "Task")
       /\ e.cropId = (IF "cropId" \in DOMAIN b THEN b.cropId ELSE Absent)
       /\ e.when = (IF "when" \in DOMAIN b THEN b.when ELSE Absent)
       /\ e.done = FALSE
C10_CreateStep ==
    /\ last'.op = "POST /api/crops" => (CreateFrame(crops, crops') /\ CropCreated)
    /\ last'.op = "POST /api/todos" => (CreateFrame(todos, todos') /\ TodoCreated)
\* The collection holds its entities in the order in which they were created.
InCreationOrder(list) ==
    \A i \in Positions(list), j \in Positions(list) : i < j => list[i].born < list[j].born
C10_ListInCreationOrder ==
    /\ InCreationOrder(crops) /\ InCreationOrder(todos)
    /\ last.op = "GET /api/crops" => (last.status = 200 /\ last.val = crops)
    /\ last.op = "GET /api/todos" => (last.status = 200 /\ last.val = todos)

\* C10: create answers 201 with an entity that has a generated id, the body's
\* fields and the defaults for the absent ones, appended at the end; after any
\* requests, list returns the surviving entities in the order of creation.
C10_CreateAppendsListOrdered ==
    /\ []C10_ListInCreationOrder
    /\ [][C10_CreateStep]_vars

\* C10 witness: of two crops, {name: "Wheat"} created second, the first was
\* deleted and the second's id overwritten; the list is the second alone.
C10_Witness ==
    /\ last.op = "GET /api/crops"
    /\ made = 2
    /\ last.val = <<[id |-> 1, name |-> "Wheat", variety |-> "", born |-> 2]>>

====
